---- MODULE Spec2Model ----
(***************************************************************************)
(* Reverse-reachable (RR) set generation and spread estimation of          *)
(* src/ris/rr_set_generator.py (class RRSetGenerator).                      *)
(*                                                                         *)
(* Probabilities and random draws are integers in percent (0.1 is 10).     *)
(* The process-global numpy generator is a 16-state linear congruential    *)
(* generator: what matters to the program is that it is one mutable state  *)
(* per process, that seed() overwrites it, and that every draw advances it.*)
(* Process 0 is the calling process; processes 1..MaxWorkers are the       *)
(* workers of the ProcessPoolExecutor.                                     *)
(***************************************************************************)
EXTENDS Integers, Sequences, FiniteSets, Bags, TLC

VARIABLES
    graph,             \* self.graph: the scenario the generator was built on
    diffusion_model,   \* self.diffusion_model
    random_seed,       \* self.random_seed
    edge_probs,        \* self._edge_probs
    parallel_workers,  \* self.parallel_workers of the generator being called
    theta,             \* the argument of generate_rr_sets
    rng,               \* np.random global state, one per process
    pc,                \* where the caller is: "idle", "seq", "par"
    tasks,             \* the local tasks of generate_rr_sets
    rr_sets,           \* the local rr_sets of generate_rr_sets
    next_task,         \* position of the sequential for loop
    run,               \* per process: the kernel invocation in progress
    futures,           \* per task: the state of its Future
    call_queue,        \* submitted tasks no worker has taken yet
    sampled,           \* per task: how many kernel invocations it received
    logged,            \* roots reported by logger.error in this call
    history,           \* the finished calls: configuration and outcome
    query              \* the last estimator query and what it returned

vars == <<graph, diffusion_model, random_seed, edge_probs, parallel_workers,
          theta, rng, pc, tasks, rr_sets, next_task, run, futures, call_queue,
          sampled, logged, history, query>>

(***************************** bounds **************************************)
MaxTheta == 3
MaxWorkers == 2
MaxSeed == 1

(***************************** numpy.random ********************************)
RngMod == 16
DefaultProb == 10

\* np.random.seed(s): the state becomes a function of s alone.
RngSeed(s) == (7 * s + 1) % RngMod

\* one step of the generator
RngNext(st) == (5 * st + 3) % RngMod

\* np.random.random(): the value in [0, 1) that state st yields, in percent
RngRandom(st) == (st * 100) \div RngMod

\* np.random.randint(0, 2**31): the seed value that state st yields (two
\* draws can yield the same seed)
RngRandint(st) == st \div 2

\* np.random.choice(a): the element of a that state st yields
RngChoice(a, st) == a[((st * Len(a)) \div RngMod) + 1]

(***************************** graphs **************************************)
\* An edge is <<u, v, data>>; data is the attribute dict as a set of
\* <<key, value>> pairs.  nodes and edges are the graph at construction;
\* removed are nodes taken out of the graph afterwards (with their edges),
\* added are edges put into the graph afterwards.
IP(p) == {<<"influence_prob", p>>}
W(p) == {<<"weight", p>>}

GraphChain ==
    [nodes |-> <<0, 1, 2, 3>>,
     edges |-> << <<0, 1, IP(100)>>, <<1, 2, IP(50)>>,
                  <<0, 2, IP(50)>>, <<2, 3, IP(100)>> >>,
     removed |-> {}, added |-> <<>>]

GraphCycle ==
    [nodes |-> <<0, 1, 2>>,
     edges |-> << <<0, 1, IP(150)>>, <<1, 2, W(50)>>, <<2, 0, {}>>,
                  <<1, 1, IP(100)>>, <<2, 1, IP(-50)>> >>,
     removed |-> {}, added |-> <<>>]

GraphStale ==
    [nodes |-> <<0, 1, 2>>,
     edges |-> << <<0, 1, IP(100)>>, <<1, 0, IP(50)>>, <<2, 0, IP(100)>> >>,
     removed |-> {2}, added |-> << <<1, 1, IP(100)>> >>]

GraphZero ==
    [nodes |-> <<0, 1, 2>>,
     edges |-> << <<0, 1, IP(0)>>, <<1, 2, IP(100)>>, <<0, 2, W(100)>> >>,
     removed |-> {}, added |-> <<>>]

GraphAdded ==
    [nodes |-> <<0, 1, 2>>,
     edges |-> << <<0, 1, IP(150) \cup W(30)>>, <<1, 2, IP(-50)>>,
                  <<2, 0, W(120)>> >>,
     removed |-> {}, added |-> << <<2, 1, IP(100)>> >>]

Graphs == {GraphChain, GraphCycle, GraphStale, GraphZero, GraphAdded}

Range(s) == {s[i] : i \in DOMAIN s}

Min(a, b) == IF a < b THEN a ELSE b
Max(a, b) == IF a > b THEN a ELSE b

\* dict.get(key, default)
DataGet(data, key, default) ==
    IF \E p \in data : p[1] = key
    THEN (CHOOSE p \in data : p[1] = key)[2]
    ELSE default

\* the edges of the graph as it is now
CurrentEdges(g) ==
    SelectSeq(g.edges \o g.added,
              LAMBDA e : e[1] \notin g.removed /\ e[2] \notin g.removed)

\* n in self.graph
HasNode(g, n) == n \in Range(g.nodes) \ g.removed

RECURSIVE SeqMap2(_, _)
\* the sources of a sequence of edges, in order
SeqMap2(es, k) ==
    IF k > Len(es) THEN <<>> ELSE <<es[k][1]>> \o SeqMap2(es, k + 1)

\* self.graph.predecessors(n), in networkx's iteration order (insertion)
Predecessors(g, n) ==
    SeqMap2(SelectSeq(CurrentEdges(g), LAMBDA e : e[2] = n), 1)

\* line 77 without the clamp: edge_probs[(u, v)] = prob
PrecomputeUnclamped(g) ==
    [e \in {<<g.edges[i][1], g.edges[i][2]>> : i \in DOMAIN g.edges} |->
        LET i == CHOOSE j \in DOMAIN g.edges :
                    /\ <<g.edges[j][1], g.edges[j][2]>> = e
                    /\ \A k \in DOMAIN g.edges :
                          <<g.edges[k][1], g.edges[k][2]>> = e => k <= j
            data == g.edges[i][3]
        IN  DataGet(data, "influence_prob",
                    DataGet(data, "weight", DefaultProb))]

\* _precompute_edge_probabilities: the table built at construction
PrecomputeEdgeProbabilities(g) ==
    [e \in {<<g.edges[i][1], g.edges[i][2]>> : i \in DOMAIN g.edges} |->
        LET i == CHOOSE j \in DOMAIN g.edges :
                    /\ <<g.edges[j][1], g.edges[j][2]>> = e
                    /\ \A k \in DOMAIN g.edges :
                          <<g.edges[k][1], g.edges[k][2]>> = e => k <= j
            data == g.edges[i][3]
            prob == DataGet(data, "influence_prob",
                            DataGet(data, "weight", DefaultProb))
        IN  Min(Max(prob, 0), 100)]

\* self._edge_probs.get((u, v), 0.1)
EdgeProbGet(table, u, v) ==
    IF <<u, v>> \in DOMAIN table THEN table[<<u, v>>] ELSE DefaultProb

(***************************** RRSet ***************************************)
\* RRSet(nodes=..., root_node=..., size=...) with __post_init__
RRSet(nodes, root_node, size) ==
    [nodes |-> nodes, root_node |-> root_node, size |-> Cardinality(nodes)]

NoRRSet == [nodes |-> {}, root_node |-> 0, size |-> 0]

(***************************** the sampling kernels ***********************)
Procs == 0..MaxWorkers

\* popped lists the nodes queue.pop(0) has returned so far in the call
Idle == [task |-> 0, root |-> 0, rr_set |-> {}, queue |-> <<>>,
         popped |-> <<>>]

\* the kernel without its line 96: the process draws on from the state it had
KernelSeedKept(prior, worker_seed) == prior

\* lines 93-97: np.random.seed(worker_seed) in the process whose generator
\* state was prior
KernelSeed(prior, worker_seed) == RngSeed(worker_seed)

\* line 100 as rr_set = set(): the root is queued but not recorded
KernelBeginNoRoot(i, root_node) ==
    [task |-> i, root |-> root_node, rr_set |-> {}, queue |-> <<root_node>>,
     popped |-> <<>>]

\* lines 100-101: rr_set = {root_node}; queue = [root_node]
KernelBegin(i, root_node) ==
    [task |-> i, root |-> root_node, rr_set |-> {root_node},
     queue |-> <<root_node>>, popped |-> <<>>]

\* line 111 with the comparison turned round
FlipReversed(draw, edge_prob) == edge_prob < draw

\* line 111 (and 149): the coin flip against the edge's probability
Flip(draw, edge_prob) == draw < edge_prob

RECURSIVE IcForLoopNoVisited(_, _, _, _, _)
\* line 111 without "predecessor not in rr_set"
IcForLoopNoVisited(table, preds, k, current, acc) ==
    IF k > Len(preds) THEN acc
    ELSE LET predecessor == preds[k]
             edge_prob == EdgeProbGet(table, predecessor, current)
             st == RngNext(acc.rng)
         IN  IF RngRandom(st) < edge_prob
             THEN IcForLoopNoVisited(table, preds, k + 1, current,
                                     [rr_set |-> acc.rr_set \cup {predecessor},
                                      queue |-> Append(acc.queue, predecessor),
                                      rng |-> st])
             ELSE IcForLoopNoVisited(table, preds, k + 1, current,
                                     [acc EXCEPT !.rng = st])

RECURSIVE IcForLoop(_, _, _, _, _)
\* lines 107-113: for predecessor in self.graph.predecessors(current).
\* acc is [rr_set, queue, rng]; the draw is made only when the predecessor
\* is not yet in rr_set (short-circuit and).
IcForLoop(table, preds, k, current, acc) ==
    IF k > Len(preds) THEN acc
    ELSE LET predecessor == preds[k]
             edge_prob == EdgeProbGet(table, predecessor, current)
             st == RngNext(acc.rng)
         IN  IF predecessor \in acc.rr_set
             THEN IcForLoop(table, preds, k + 1, current, acc)
             ELSE IF Flip(RngRandom(st), edge_prob)
                  THEN IcForLoop(table, preds, k + 1, current,
                                 [rr_set |-> acc.rr_set \cup {predecessor},
                                  queue |-> Append(acc.queue, predecessor),
                                  rng |-> st])
                  ELSE IcForLoop(table, preds, k + 1, current,
                                 [acc EXCEPT !.rng = st])

\* lines 103-113: one iteration of while queue
IcPop(g, table, r, st) ==
    LET current == Head(r.queue)
    IN  IcForLoop(table, Predecessors(g, current), 1, current,
                  [rr_set |-> r.rr_set, queue |-> Tail(r.queue), rng |-> st])

RECURSIVE LtForLoop(_, _, _, _, _)
\* lines 145-151
LtForLoop(table, preds, k, current, acc) ==
    IF k > Len(preds) THEN acc
    ELSE LET predecessor == preds[k]
             edge_prob == EdgeProbGet(table, predecessor, current)
             st == RngNext(acc.rng)
         IN  IF predecessor \in acc.rr_set
             THEN LtForLoop(table, preds, k + 1, current, acc)
             ELSE IF Flip(RngRandom(st), edge_prob)
                  THEN LtForLoop(table, preds, k + 1, current,
                                 [rr_set |-> acc.rr_set \cup {predecessor},
                                  queue |-> Append(acc.queue, predecessor),
                                  rng |-> st])
                  ELSE LtForLoop(table, preds, k + 1, current,
                                 [acc EXCEPT !.rng = st])

\* the while body with threshold semantics: one threshold is drawn for the
\* popped node, and every unvisited predecessor whose edge weight exceeds
\* it is added
LtPopThreshold(g, table, r, st) ==
    LET current == Head(r.queue)
        st1 == RngNext(st)
        chosen == SelectSeq(Predecessors(g, current),
                            LAMBDA u : /\ u \notin r.rr_set
                                       /\ EdgeProbGet(table, u, current)
                                          > RngRandom(st1))
    IN  [rr_set |-> r.rr_set \cup Range(chosen),
         queue |-> Tail(r.queue) \o chosen, rng |-> st1]

\* lines 142-151
LtPop(g, table, r, st) ==
    LET current == Head(r.queue)
    IN  LtForLoop(table, Predecessors(g, current), 1, current,
                  [rr_set |-> r.rr_set, queue |-> Tail(r.queue), rng |-> st])

RECURSIVE IcWhile(_, _, _, _)
\* lines 103-115: the while loop run to its end, and the RRSet returned
IcWhile(g, table, r, st) ==
    IF r.queue = <<>>
    THEN RRSet(r.rr_set, r.root, Cardinality(r.rr_set))
    ELSE LET acc == IcPop(g, table, r, st)
         IN  IcWhile(g, table,
                     [r EXCEPT !.rr_set = acc.rr_set, !.queue = acc.queue],
                     acc.rng)

\* _generate_single_rr_set_ic(root_node, worker_seed) on a root the graph
\* holds
GenerateSingleRRSetIc(g, table, root_node, worker_seed) ==
    IcWhile(g, table, KernelBegin(0, root_node), KernelSeed(0, worker_seed))

RECURSIVE LtWhile(_, _, _, _)
\* lines 142-153
LtWhile(g, table, r, st) ==
    IF r.queue = <<>>
    THEN RRSet(r.rr_set, r.root, Cardinality(r.rr_set))
    ELSE LET acc == LtPop(g, table, r, st)
         IN  LtWhile(g, table,
                     [r EXCEPT !.rr_set = acc.rr_set, !.queue = acc.queue],
                     acc.rng)

\* _generate_single_rr_set_lt(root_node, worker_seed) on a root the graph
\* holds
GenerateSingleRRSetLt(g, table, root_node, worker_seed) ==
    LtWhile(g, table, KernelBegin(0, root_node), KernelSeed(0, worker_seed))

\* the kernel generate_rr_sets selects (lines 182-185, 190-199)
KernelPop(model, g, table, r, st) ==
    IF model = "IC" THEN IcPop(g, table, r, st) ELSE LtPop(g, table, r, st)

\* self.graph.predecessors(current) raises NetworkXError when current is
\* not a node of the graph
PredecessorsRaises(g, r) == ~HasNode(g, Head(r.queue))

(***************************** generate_rr_sets ***************************)
RECURSIVE RngStates(_, _)
\* the n states the generator goes through after st
RngStates(st, n) ==
    IF n = 0 THEN <<>> ELSE <<RngNext(st)>> \o RngStates(RngNext(st), n - 1)

\* generate_rr_sets without its line 168
MasterSeedKept(prior, seed) == prior

\* line 168: np.random.seed(self.random_seed) in the calling process, whose
\* generator state was prior
MasterSeed(prior, seed) == RngSeed(seed)

\* lines 169-175: theta seeds, then theta roots, zipped into the task list;
\* st is the generator state after line 168
DeriveTasks(g, st, th) ==
    LET sts == RngStates(st, 2 * th)
    IN  [i \in 1..th |->
            [root |-> RngChoice(g.nodes, sts[th + i]),
             seed |-> RngRandint(sts[i])]]

\* the generator state of the calling process after lines 169-172
MasterAfter(st, th) ==
    IF th = 0 THEN st ELSE RngStates(st, 2 * th)[2 * th]

\* lines 191-199 with the dict keyed by the task instead of the Future: a
\* task equal to an earlier one replaces it
SubmitDistinct(ts) ==
    SelectSeq([i \in 1..Len(ts) |-> i],
              LAMBDA i : \A j \in 1..(i - 1) : ts[j] # ts[i])

\* lines 191-199: one Future per task, in task order
SubmitAll(ts) == [i \in 1..Len(ts) |-> i]

NoFuture == [state |-> "pending", result |-> NoRRSet, collected |-> FALSE]

\* the collection loop left after the first future it handled
AsCompletedAny(fs) == \A i \in DOMAIN fs : \E j \in DOMAIN fs : fs[j].collected

\* line 201: as_completed(futures) has yielded every future
AsCompletedExhausted(fs) == \A i \in DOMAIN fs : fs[i].collected

Fresh == -1

Record(outcome) ==
    [theta |-> theta, workers |-> parallel_workers, outcome |-> outcome,
     tasks |-> tasks, pool |-> rr_sets, logged |-> logged,
     sampled |-> sampled,
     states |-> [i \in DOMAIN futures |-> futures[i].state],
     results |-> [i \in DOMAIN futures |-> futures[i].result]]

ClearCall ==
    /\ tasks' = <<>>
    /\ rr_sets' = <<>>
    /\ next_task' = 0
    /\ run' = [p \in Procs |-> Idle]
    /\ futures' = <<>>
    /\ call_queue' = <<>>
    /\ sampled' = <<>>
    /\ logged' = <<>>
    /\ rng' = [p \in Procs |-> IF p = 0 THEN rng[0] ELSE Fresh]

\* no estimator query has been made on the pool of the last call
NoQuery(g) ==
    [op |-> "none", seed_set |-> {}, num |-> 0, den |-> 1,
     coverage |-> [n \in Range(g.nodes) |-> 0], raised |-> FALSE]

Init ==
    /\ graph \in Graphs
    /\ diffusion_model \in {"IC", "LT"}
    /\ random_seed \in 0..MaxSeed
    /\ edge_probs = PrecomputeEdgeProbabilities(graph)
    /\ parallel_workers = 1
    /\ theta = 0
    /\ rng = [p \in Procs |-> IF p = 0 THEN 0 ELSE Fresh]
    /\ pc = "idle"
    /\ tasks = <<>>
    /\ rr_sets = <<>>
    /\ next_task = 0
    /\ run = [p \in Procs |-> Idle]
    /\ futures = <<>>
    /\ call_queue = <<>>
    /\ sampled = <<>>
    /\ logged = <<>>
    /\ history = <<>>
    /\ query = NoQuery(graph)

\* lines 165-177 and the branch of line 179, called with theta = th on a
\* generator whose parallel_workers is w, when the caller's own draws have
\* left np.random in state prior.  history keeps the call before this one
\* when that was a one-worker call with the same theta, the call a second
\* run is compared with.
GenerateRRSets(th, w, prior) ==
    /\ pc = "idle"
    /\ theta' = th
    /\ parallel_workers' = w
    /\ tasks' = DeriveTasks(graph, MasterSeed(prior, random_seed), th)
    /\ rng' = [p \in Procs |->
                 IF p = 0
                 THEN MasterAfter(MasterSeed(prior, random_seed), th)
                 ELSE Fresh]
    /\ history' = IF /\ history # <<>>
                     /\ history[Len(history)].workers = 1
                     /\ history[Len(history)].theta = th
                  THEN <<history[Len(history)]>>
                  ELSE <<>>
    /\ rr_sets' = <<>>
    /\ sampled' = [i \in 1..th |-> 0]
    /\ logged' = <<>>
    /\ run' = [p \in Procs |-> Idle]
    /\ query' = NoQuery(graph)
    /\ IF w = 1
       THEN /\ pc' = "seq"
            /\ next_task' = 1
            /\ futures' = <<>>
            /\ call_queue' = <<>>
       ELSE /\ pc' = "par"
            /\ next_task' = 0
            /\ call_queue' = SubmitAll(tasks')
            /\ futures' = [i \in Range(call_queue') |-> NoFuture]
    /\ UNCHANGED <<graph, diffusion_model, random_seed, edge_probs>>

\* line 181-185: the for loop calls the kernel on the next task
SeqStart ==
    /\ pc = "seq"
    /\ run[0] = Idle
    /\ next_task <= Len(tasks)
    /\ LET t == tasks[next_task]
       IN  /\ run' = [run EXCEPT ![0] = KernelBegin(next_task, t.root)]
           /\ rng' = [rng EXCEPT ![0] = KernelSeed(rng[0], t.seed)]
           /\ sampled' = [sampled EXCEPT ![next_task] = @ + 1]
    /\ UNCHANGED <<graph, diffusion_model, random_seed, edge_probs,
                   parallel_workers, theta, pc, tasks, rr_sets, next_task,
                   futures, call_queue, logged, history, query>>

\* lines 103-113 in the calling process
SeqStep ==
    /\ pc = "seq"
    /\ run[0] # Idle
    /\ run[0].queue # <<>>
    /\ ~PredecessorsRaises(graph, run[0])
    /\ LET acc == KernelPop(diffusion_model, graph, edge_probs, run[0], rng[0])
       IN  /\ run' = [run EXCEPT ![0].rr_set = acc.rr_set,
                                 ![0].queue = acc.queue,
                                 ![0].popped = Append(@, Head(run[0].queue))]
           /\ rng' = [rng EXCEPT ![0] = acc.rng]
    /\ UNCHANGED <<graph, diffusion_model, random_seed, edge_probs,
                   parallel_workers, theta, pc, tasks, rr_sets, next_task,
                   futures, call_queue, sampled, logged, history, query>>

\* the kernel raises in the calling process: lines 181-186 have no handler,
\* the exception leaves generate_rr_sets
SeqRaise ==
    /\ pc = "seq"
    /\ run[0] # Idle
    /\ run[0].queue # <<>>
    /\ PredecessorsRaises(graph, run[0])
    /\ history' = Append(history, Record("raised"))
    /\ pc' = "idle"
    /\ ClearCall
    /\ UNCHANGED <<graph, diffusion_model, random_seed, edge_probs,
                   parallel_workers, theta, query>>

\* lines 115 (153) and 186: the kernel returns, rr_sets.append(rr_set)
SeqFinish ==
    /\ pc = "seq"
    /\ run[0] # Idle
    /\ run[0].queue = <<>>
    /\ rr_sets' = Append(rr_sets, RRSet(run[0].rr_set, run[0].root,
                                        Cardinality(run[0].rr_set)))
    /\ next_task' = next_task + 1
    /\ run' = [run EXCEPT ![0] = Idle]
    /\ UNCHANGED <<graph, diffusion_model, random_seed, edge_probs,
                   parallel_workers, theta, rng, pc, tasks, futures,
                   call_queue, sampled, logged, history, query>>

\* lines 209-210 after the sequential loop
SeqReturn ==
    /\ pc = "seq"
    /\ run[0] = Idle
    /\ next_task > Len(tasks)
    /\ history' = Append(history, Record("returned"))
    /\ pc' = "idle"
    /\ ClearCall
    /\ UNCHANGED <<graph, diffusion_model, random_seed, edge_probs,
                   parallel_workers, theta, query>>

\* a worker process takes the next submitted task and enters the kernel
WorkerStart(w) ==
    /\ pc = "par"
    /\ w \in 1..parallel_workers
    /\ run[w] = Idle
    /\ call_queue # <<>>
    /\ LET i == Head(call_queue)
           t == tasks[i]
       IN  /\ call_queue' = Tail(call_queue)
           /\ futures' = [futures EXCEPT ![i].state = "running"]
           /\ run' = [run EXCEPT ![w] = KernelBegin(i, t.root)]
           /\ sampled' = [sampled EXCEPT ![i] = @ + 1]
           /\ \E prior \in 0..(RngMod - 1) :
                 /\ rng[w] # Fresh => prior = rng[w]
                 /\ rng' = [rng EXCEPT ![w] = KernelSeed(prior, t.seed)]
    /\ UNCHANGED <<graph, diffusion_model, random_seed, edge_probs,
                   parallel_workers, theta, pc, tasks, rr_sets, next_task,
                   logged, history, query>>

\* lines 103-113 in a worker process
WorkerStep(w) ==
    /\ pc = "par"
    /\ w \in 1..parallel_workers
    /\ run[w] # Idle
    /\ run[w].queue # <<>>
    /\ ~PredecessorsRaises(graph, run[w])
    /\ LET acc == KernelPop(diffusion_model, graph, edge_probs, run[w], rng[w])
       IN  /\ run' = [run EXCEPT ![w].rr_set = acc.rr_set,
                                 ![w].queue = acc.queue,
                                 ![w].popped = Append(@, Head(run[w].queue))]
           /\ rng' = [rng EXCEPT ![w] = acc.rng]
    /\ UNCHANGED <<graph, diffusion_model, random_seed, edge_probs,
                   parallel_workers, theta, pc, tasks, rr_sets, next_task,
                   futures, call_queue, sampled, logged, history, query>>

\* the kernel raises in a worker: the exception is stored in the Future
WorkerRaise(w) ==
    /\ pc = "par"
    /\ w \in 1..parallel_workers
    /\ run[w] # Idle
    /\ run[w].queue # <<>>
    /\ PredecessorsRaises(graph, run[w])
    /\ futures' = [futures EXCEPT ![run[w].task].state = "failed"]
    /\ run' = [run EXCEPT ![w] = Idle]
    /\ UNCHANGED <<graph, diffusion_model, random_seed, edge_probs,
                   parallel_workers, theta, rng, pc, tasks, rr_sets,
                   next_task, call_queue, sampled, logged, history, query>>

\* line 115 (153) in a worker: the RRSet becomes the Future's result
WorkerFinish(w) ==
    /\ pc = "par"
    /\ w \in 1..parallel_workers
    /\ run[w] # Idle
    /\ run[w].queue = <<>>
    /\ futures' = [futures EXCEPT
                     ![run[w].task].state = "done",
                     ![run[w].task].result =
                         RRSet(run[w].rr_set, run[w].root,
                               Cardinality(run[w].rr_set))]
    /\ run' = [run EXCEPT ![w] = Idle]
    /\ UNCHANGED <<graph, diffusion_model, random_seed, edge_probs,
                   parallel_workers, theta, rng, pc, tasks, rr_sets,
                   next_task, call_queue, sampled, logged, history, query>>

\* lines 201-204: as_completed yields a finished future, its result is
\* appended
CollectResult(i) ==
    /\ pc = "par"
    /\ i \in DOMAIN futures
    /\ futures[i].state = "done"
    /\ ~futures[i].collected
    /\ rr_sets' = Append(rr_sets, futures[i].result)
    /\ futures' = [futures EXCEPT ![i].collected = TRUE]
    /\ UNCHANGED <<graph, diffusion_model, random_seed, edge_probs,
                   parallel_workers, theta, rng, pc, tasks, next_task, run,
                   call_queue, sampled, logged, history, query>>

\* lines 201-207: future.result() re-raises, the handler logs the root
CollectFailure(i) ==
    /\ pc = "par"
    /\ i \in DOMAIN futures
    /\ futures[i].state = "failed"
    /\ ~futures[i].collected
    /\ logged' = Append(logged, tasks[i].root)
    /\ futures' = [futures EXCEPT ![i].collected = TRUE]
    /\ UNCHANGED <<graph, diffusion_model, random_seed, edge_probs,
                   parallel_workers, theta, rng, pc, tasks, rr_sets,
                   next_task, run, call_queue, sampled, history, query>>

\* lines 201, 189 (end of the with block) and 209-210
ParReturn ==
    /\ pc = "par"
    /\ AsCompletedExhausted(futures)
    /\ history' = Append(history, Record("returned"))
    /\ pc' = "idle"
    /\ ClearCall
    /\ UNCHANGED <<graph, diffusion_model, random_seed, edge_probs,
                   parallel_workers, theta, query>>

(***************************** the estimator ******************************)
\* line 228 as rr_set.nodes >= seed_set
CoversSubset(rr_set, seed_set) == seed_set \subseteq rr_set.nodes

\* line 228: rr_set.nodes & seed_set is not empty
Covers(rr_set, seed_set) == rr_set.nodes \cap seed_set # {}

RECURSIVE CoveredSetsSkipFirst(_, _, _)
\* the loop of line 227 over rr_sets[1:]
CoveredSetsSkipFirst(seed_set, pool, k) ==
    IF k <= 1 THEN 0
    ELSE CoveredSetsSkipFirst(seed_set, pool, k - 1)
         + (IF pool[k].nodes \cap seed_set # {} THEN 1 ELSE 0)

RECURSIVE CoveredSets(_, _, _)
\* lines 226-229: covered_sets after the first k RR sets of the loop
CoveredSets(seed_set, pool, k) ==
    IF k = 0 THEN 0
    ELSE CoveredSets(seed_set, pool, k - 1)
         + (IF Covers(pool[k], seed_set) THEN 1 ELSE 0)

\* line 232 without the division by len(rr_sets)
EstimateUnnormalised(seed_set, pool, num_nodes) ==
    IF pool = <<>>
    THEN [num |-> 0, den |-> 1]
    ELSE [num |-> CoveredSets(seed_set, pool, Len(pool)) * num_nodes,
          den |-> 1]

\* estimate_influence_spread: the float returned, as the fraction num / den
EstimateInfluenceSpread(seed_set, pool, num_nodes) ==
    IF pool = <<>>
    THEN [num |-> 0, den |-> 1]
    ELSE [num |-> CoveredSets(seed_set, pool, Len(pool)) * num_nodes,
          den |-> Len(pool)]

\* line 248 as coverage[node] = 1
CoverageAssign(coverage, nodes) ==
    [n \in DOMAIN coverage |-> IF n \in nodes THEN 1 ELSE coverage[n]]

\* line 248: coverage[node] += 1 for node in rr_set.nodes
CoverageAdd(coverage, nodes) ==
    [n \in DOMAIN coverage |-> coverage[n] + (IF n \in nodes THEN 1 ELSE 0)]

RECURSIVE CoverageLoop(_, _, _)
\* lines 246-248: coverage after the first k RR sets of the loop
CoverageLoop(coverage, pool, k) ==
    IF k = 0 THEN coverage
    ELSE CoverageAdd(CoverageLoop(coverage, pool, k - 1), pool[k].nodes)

\* get_node_coverage: line 244 and the loop
GetNodeCoverage(node_list, pool) ==
    CoverageLoop([n \in Range(node_list) |-> 0], pool, Len(pool))

\* line 248 raises KeyError for a node that is not in self.nodes
CoverageRaises(node_list, pool) ==
    \E k \in DOMAIN pool : ~(pool[k].nodes \subseteq Range(node_list))

\* the pool the last call returned
LastPool == history[Len(history)].pool

HasPool == history # <<>> /\ history[Len(history)].outcome = "returned"

SeedIds == {0, 1, 7}

\* the caller queries estimate_influence_spread(seed_set, pool)
QueryEstimate(seed_set) ==
    /\ pc = "idle"
    /\ HasPool
    /\ LET v == EstimateInfluenceSpread(seed_set, LastPool, Len(graph.nodes))
       IN  query' = [NoQuery(graph) EXCEPT !.op = "estimate",
                                           !.seed_set = seed_set,
                                           !.num = v.num, !.den = v.den]
    /\ UNCHANGED <<graph, diffusion_model, random_seed, edge_probs,
                   parallel_workers, theta, rng, pc, tasks, rr_sets,
                   next_task, run, futures, call_queue, sampled, logged,
                   history>>

\* the caller queries get_node_coverage(pool)
QueryCoverage ==
    /\ pc = "idle"
    /\ HasPool
    /\ query' = IF CoverageRaises(graph.nodes, LastPool)
                THEN [NoQuery(graph) EXCEPT !.op = "coverage",
                                            !.raised = TRUE]
                ELSE [NoQuery(graph) EXCEPT
                         !.op = "coverage",
                         !.coverage = GetNodeCoverage(graph.nodes, LastPool)]
    /\ UNCHANGED <<graph, diffusion_model, random_seed, edge_probs,
                   parallel_workers, theta, rng, pc, tasks, rr_sets,
                   next_task, run, futures, call_queue, sampled, logged,
                   history>>

Next ==
    \/ \E th \in 0..MaxTheta, w \in 1..MaxWorkers, prior \in 0..(RngMod - 1) :
          GenerateRRSets(th, w, prior)
    \/ SeqStart
    \/ SeqStep
    \/ SeqRaise
    \/ SeqFinish
    \/ SeqReturn
    \/ \E w \in 1..MaxWorkers : WorkerStart(w)
    \/ \E w \in 1..MaxWorkers : WorkerStep(w)
    \/ \E w \in 1..MaxWorkers : WorkerRaise(w)
    \/ \E w \in 1..MaxWorkers : WorkerFinish(w)
    \/ \E i \in 1..MaxTheta : CollectResult(i)
    \/ \E i \in 1..MaxTheta : CollectFailure(i)
    \/ ParReturn
    \/ \E seed_set \in SUBSET SeedIds : QueryEstimate(seed_set)
    \/ QueryCoverage

Spec == Init /\ [][Next]_vars

\* A process inside a kernel call waits for nothing: it runs its loop, then
\* returns or raises.
FairSpec ==
    /\ Spec
    /\ WF_vars(SeqStep) /\ WF_vars(SeqFinish) /\ WF_vars(SeqRaise)
    /\ \A w \in 1..MaxWorkers :
          WF_vars(WorkerStep(w)) /\ WF_vars(WorkerFinish(w))
          /\ WF_vars(WorkerRaise(w))

(***************************** properties *********************************)
BagOfSeq(sq) == [x \in Range(sq) |-> Cardinality({i \in DOMAIN sq : sq[i] = x})]

\* the tasks of a finished call whose sampling raises: their root is no
\* longer a node of the graph
Failing(h) == {i \in DOMAIN h.tasks : ~HasNode(graph, h.tasks[i].root)}

RECURSIVE SumSizes(_, _)
SumSizes(pool, k) == IF k = 0 THEN 0 ELSE SumSizes(pool, k - 1) + pool[k].size

RECURSIVE SumOver(_, _)
SumOver(f, S) ==
    IF S = {} THEN 0
    ELSE LET x == CHOOSE y \in S : TRUE IN f[x] + SumOver(f, S \ {x})

\* C1: for every worker count, a task whose sampling raises does not make
\* generate_rr_sets raise: the call returns, the pool holds one RR set for
\* every other task and none for the failing one.
C1_FailureIsolation ==
    \A k \in DOMAIN history :
        LET h == history[k]
        IN  Failing(h) # {} =>
              /\ h.outcome = "returned"
              /\ Len(h.pool) = h.theta - Cardinality(Failing(h))
              /\ BagOfSeq([j \in DOMAIN h.pool |-> h.pool[j].root_node])
                 = BagOfSeq(SelectSeq([i \in DOMAIN h.tasks |-> h.tasks[i].root],
                                      LAMBDA r : HasNode(graph, r)))

\* C2: when no task fails, generate_rr_sets returns exactly theta RR sets
\* and has sampled every task exactly once, for every theta and worker
\* count; no task is ever sampled twice.
C2_ExactlyTheta ==
    /\ \A i \in DOMAIN sampled : sampled[i] <= 1
    /\ \A k \in DOMAIN history :
          LET h == history[k]
          IN  Failing(h) = {} =>
                /\ h.outcome = "returned"
                /\ Len(h.pool) = h.theta
                /\ \A i \in 1..h.theta : h.sampled[i] = 1

C2_Witness ==
    \E k \in DOMAIN history :
        /\ history[k].workers > 1
        /\ history[k].theta >= 3
        /\ Failing(history[k]) = {}
        /\ Len(history[k].pool) = history[k].theta
        /\ \E i, j \in DOMAIN history[k].tasks :
              i # j /\ history[k].tasks[i] = history[k].tasks[j]

\* every RRSet object that exists: collected, held by a Future, or returned
AllRRSets ==
    Range(rr_sets)
    \cup {futures[i].result : i \in {j \in DOMAIN futures : futures[j].state = "done"}}
    \cup UNION {Range(history[k].pool) : k \in DOMAIN history}

\* C3: every RRSet contains its root and its size is the number of its
\* nodes; the set a traversal is building contains the root at every step.
C3_RootAndSize ==
    /\ \A p \in Procs : run[p] # Idle => run[p].root \in run[p].rr_set
    /\ \A r \in AllRRSets : r.root_node \in r.nodes /\ r.size = Cardinality(r.nodes)

C3_Witness ==
    /\ \E p \in Procs : run[p] # Idle /\ Cardinality(run[p].rr_set) >= 2
                        /\ run[p].queue # <<>>
    /\ \E r \in AllRRSets : r.size >= 3
    /\ diffusion_model = "LT"

\* C4: a multi-worker call and a one-worker call with the same theta derive
\* the same task list, every task yields the same RR set in both, and the
\* two pools are equal as multisets.
C4_ParallelEqualsSequential ==
    \A a, b \in DOMAIN history :
        LET sq == history[a]
            pr == history[b]
        IN  ( /\ sq.workers = 1 /\ pr.workers > 1
              /\ sq.theta = pr.theta
              /\ sq.outcome = "returned" /\ pr.outcome = "returned" )
            => /\ sq.tasks = pr.tasks
               /\ \A i \in DOMAIN pr.results : pr.results[i] = sq.pool[i]
               /\ BagOfSeq(sq.pool) = BagOfSeq(pr.pool)

C4_Witness ==
    \E a, b \in DOMAIN history :
        /\ history[a].workers = 1 /\ history[b].workers > 1
        /\ history[a].theta = history[b].theta
        /\ history[a].outcome = "returned" /\ history[b].outcome = "returned"
        /\ history[a].pool # history[b].pool
        /\ \E j \in DOMAIN history[a].pool : history[a].pool[j].size >= 2

\* C5: two one-worker calls with the same theta return the identical
\* sequence of RR sets, whatever the caller drew from np.random in between.
C5_SequentialDeterminism ==
    \A a, b \in DOMAIN history :
        ( /\ history[a].workers = 1 /\ history[b].workers = 1
          /\ history[a].theta = history[b].theta )
        => /\ history[a].outcome = history[b].outcome
           /\ history[a].tasks = history[b].tasks
           /\ history[a].pool = history[b].pool

C5_Witness ==
    /\ Len(history) = 2
    /\ history[1].workers = 1 /\ history[2].workers = 1
    /\ history[1].theta = history[2].theta
    /\ history[1].outcome = "returned"
    /\ Len(history[2].pool) >= 2
    /\ \E j \in DOMAIN history[2].pool : history[2].pool[j].size >= 2
    /\ rng[0] # 0

\* C6: a multi-worker call returns only when every task's Future is done or
\* failed, and its pool holds theta minus the number of failed tasks RR sets.
C6_JoinBarrier ==
    \A k \in DOMAIN history :
        LET h == history[k]
            failed == {i \in DOMAIN h.states : h.states[i] = "failed"}
        IN  h.workers > 1 =>
              /\ h.outcome = "returned"
              /\ DOMAIN h.states = 1..h.theta
              /\ \A i \in 1..h.theta : h.states[i] \in {"done", "failed"}
              /\ Len(h.pool) = h.theta - Cardinality(failed)
              /\ Len(h.pool) >= 0 /\ Len(h.pool) <= h.theta

C6_Witness ==
    \E k \in DOMAIN history :
        /\ history[k].workers > 1
        /\ \E i \in DOMAIN history[k].states : history[k].states[i] = "failed"
        /\ Len(history[k].pool) >= 1
        /\ Len(history[k].pool) < history[k].theta

\* the number of RR sets of a pool that share a node with a seed set
Intersecting(seed_set, pool) ==
    Cardinality({k \in DOMAIN pool : \E n \in seed_set : n \in pool[k].nodes})

\* C7: estimate_influence_spread returns (RR sets intersecting the seed
\* set) / (pool size) * (node count), and 0 for an empty pool.
C7_EstimateFormula ==
    query.op = "estimate" =>
        IF Len(LastPool) = 0
        THEN query.num = 0
        ELSE query.num * Len(LastPool)
             = Intersecting(query.seed_set, LastPool) * Len(graph.nodes) * query.den

C7_Witness ==
    /\ query.op = "estimate"
    /\ Len(LastPool) >= 2
    /\ query.num > 0
    /\ query.num < Len(graph.nodes) * query.den
    /\ Cardinality(query.seed_set) >= 2

C7_WitnessEmpty ==
    query.op = "estimate" /\ HasPool /\ LastPool = <<>> /\ query.seed_set # {}

\* C8: the estimate lies between 0 and the graph's node count, for every
\* seed set (empty, or holding identifiers that are no graph nodes).
C8_EstimateRange ==
    query.op = "estimate" =>
        /\ query.den > 0
        /\ query.num >= 0
        /\ query.num <= Len(graph.nodes) * query.den

C8_Witness ==
    /\ query.op = "estimate"
    /\ 7 \in query.seed_set
    /\ Len(LastPool) >= 2
    /\ query.num = Len(graph.nodes) * query.den

\* C9: the counts of get_node_coverage sum to the sum of the RR sets' sizes,
\* and every graph node has an entry, 0 when no RR set contains it.
C9_CoverageSum ==
    query.op = "coverage" =>
        /\ ~query.raised
        /\ \A n \in Range(graph.nodes) : HasNode(graph, n) => n \in DOMAIN query.coverage
        /\ SumOver(query.coverage, DOMAIN query.coverage)
           = SumSizes(LastPool, Len(LastPool))
        /\ \A n \in DOMAIN query.coverage :
              (\A k \in DOMAIN LastPool : n \notin LastPool[k].nodes)
              => query.coverage[n] = 0

C9_Witness ==
    /\ query.op = "coverage"
    /\ \E n \in DOMAIN query.coverage : query.coverage[n] >= 2
    /\ \E n \in DOMAIN query.coverage : query.coverage[n] = 0
    /\ \E k \in DOMAIN LastPool : LastPool[k].size >= 2

\* C10: on a fixed pool, adding a node to the seed set never lowers the
\* estimate.
C10_Monotone ==
    query.op = "estimate" =>
        \A x \in SeedIds \ query.seed_set :
            LET more == EstimateInfluenceSpread(query.seed_set \cup {x}, LastPool,
                                                Len(graph.nodes))
            IN  more.num * query.den >= query.num * more.den

C10_Witness ==
    /\ query.op = "estimate"
    /\ query.seed_set # {}
    /\ query.num > 0
    /\ \E x \in SeedIds \ query.seed_set :
          LET more == EstimateInfluenceSpread(query.seed_set \cup {x}, LastPool,
                                              Len(graph.nodes))
          IN  more.num * query.den > query.num * more.den

\* the attribute values of an edge's data under a key
Values(data, key) == {q[2] : q \in {r \in data : r[1] = key}}

\* the (predecessor, current) pairs the next while iteration of process p
\* looks up and may compare a draw against
PendingLookups(p) ==
    IF run[p] = Idle \/ run[p].queue = <<>> \/ PredecessorsRaises(graph, run[p])
    THEN {}
    ELSE {<<u, Head(run[p].queue)>> :
             u \in Range(Predecessors(graph, Head(run[p].queue)))}

NoDuplicates(sq) == \A i, j \in DOMAIN sq : sq[i] = sq[j] => i = j

\* the nodes the graph holds now
GraphNodes == {n \in Range(graph.nodes) : HasNode(graph, n)}

\* every node of the set being built was enqueued once: it is in the queue
\* or was popped, never both and never twice; the pops do not exceed the
\* number of graph nodes
TraversalBounded ==
    \A p \in Procs :
        run[p] # Idle =>
          /\ NoDuplicates(run[p].queue)
          /\ NoDuplicates(run[p].popped)
          /\ Range(run[p].queue) \cap Range(run[p].popped) = {}
          /\ Range(run[p].queue) \cup Range(run[p].popped) = run[p].rr_set
          /\ Len(run[p].popped) <= Cardinality(GraphNodes)
          /\ Len(run[p].popped) + Len(run[p].queue) <= Cardinality(GraphNodes) + 1

\* C12: every traversal terminates, on cycles and self-loops too: a node is
\* added and enqueued at most once, the pops never exceed the number of
\* graph nodes, and a process that entered a kernel leaves it.
C12_Termination ==
    /\ []TraversalBounded
    /\ \A p \in Procs : (run[p] # Idle) ~> (run[p] = Idle)

C12_Witness ==
    /\ graph = GraphCycle
    /\ \E p \in Procs :
          /\ run[p] # Idle
          /\ Len(run[p].popped) = Cardinality(GraphNodes)
          /\ run[p].queue = <<>>
          /\ \E n \in run[p].rr_set :
                n \in Range(Predecessors(graph, n))

\* what the two kernels return for a task
IcOf(t) == GenerateSingleRRSetIc(graph, edge_probs, t.root, t.seed)
LtOf(t) == GenerateSingleRRSetLt(graph, edge_probs, t.root, t.seed)

\* C13: the LT kernel returns what the IC kernel returns, for every task
\* and at every while iteration, so a generator built with 'LT' returns the
\* pool one built with 'IC' returns: every RR set a call of either model
\* produced is the IC kernel's and the LT kernel's result for its task, and
\* the task list does not depend on the model.
C13_LtEqualsIc ==
    /\ \A p \in Procs :
          (run[p] # Idle /\ run[p].queue # <<>> /\ ~PredecessorsRaises(graph, run[p]))
          => IcPop(graph, edge_probs, run[p], rng[p])
             = LtPop(graph, edge_probs, run[p], rng[p])
    /\ pc = "seq" =>
          \A i \in DOMAIN rr_sets :
              rr_sets[i] = IcOf(tasks[i]) /\ rr_sets[i] = LtOf(tasks[i])
    /\ \A i \in DOMAIN futures :
          futures[i].state = "done" =>
              /\ futures[i].result = IcOf(tasks[i])
              /\ futures[i].result = LtOf(tasks[i])
    /\ \A k \in DOMAIN history :
          LET h == history[k]
          IN  /\ h.tasks = DeriveTasks(graph, RngSeed(random_seed), h.theta)
              /\ (h.workers = 1 /\ h.outcome = "returned") =>
                    \A i \in DOMAIN h.pool :
                        h.pool[i] = IcOf(h.tasks[i]) /\ h.pool[i] = LtOf(h.tasks[i])
              /\ h.workers > 1 =>
                    /\ \A i \in DOMAIN h.results :
                          h.states[i] = "done" =>
                              /\ h.results[i] = IcOf(h.tasks[i])
                              /\ h.results[i] = LtOf(h.tasks[i])
                    /\ BagOfSeq(h.pool)
                       = BagOfSeq(SelectSeq([i \in DOMAIN h.tasks |-> IcOf(h.tasks[i])],
                                            LAMBDA r : HasNode(graph, r.root_node)))

C13_Witness ==
    /\ diffusion_model = "LT"
    /\ \E k \in DOMAIN history :
          /\ history[k].workers = 1
          /\ history[k].outcome = "returned"
          /\ history[k].theta >= 2
          /\ \E i \in DOMAIN history[k].pool : history[k].pool[i].size >= 3
          /\ \E i \in DOMAIN history[k].pool : history[k].pool[i].size = 1

\* the edges of the graph whose probability, as the kernel looks it up, is
\* greater than 0
PositiveEdges ==
    {<<e[1], e[2]>> : e \in {d \in Range(CurrentEdges(graph)) :
                                 EdgeProbGet(edge_probs, d[1], d[2]) > 0}}

\* the edges of the graph whose probability, as the kernel looks it up, is 1
CertainEdges ==
    {<<e[1], e[2]>> : e \in {d \in Range(CurrentEdges(graph)) :
                                 EdgeProbGet(edge_probs, d[1], d[2]) = 100}}

RECURSIVE ReachingWithin(_, _)
\* the nodes of S with a path of positive edges into R that stays in S
ReachingWithin(R, S) ==
    LET new == {u \in S \ R : \E v \in R : <<u, v>> \in PositiveEdges}
    IN  IF new = {} THEN R ELSE ReachingWithin(R \cup new, S)

\* every member of S reaches root inside S, and S holds every predecessor
\* on a certain edge into a node of done
ReverseReachable(S, root, done) ==
    /\ ReachingWithin({root}, S) = S
    /\ \A e \in CertainEdges : e[2] \in done => e[1] \in S

\* C14: at every step of a traversal and in every RRSet, each member other
\* than the root has a path to the root over edges of probability > 0 whose
\* nodes are all members (so a predecessor behind probability-0 edges only
\* is never a member), and every predecessor on a probability-1 edge into a
\* popped node is a member.
C14_ReverseReachability ==
    /\ \A p \in Procs :
          run[p] # Idle =>
              ReverseReachable(run[p].rr_set, run[p].root, Range(run[p].popped))
    /\ \A r \in AllRRSets : ReverseReachable(r.nodes, r.root_node, r.nodes)

C14_Witness ==
    \E p \in Procs :
        /\ run[p] # Idle
        /\ \E e \in CertainEdges :
              /\ e[2] \in Range(run[p].popped)
              /\ e[1] # e[2] /\ e[1] \in run[p].rr_set
        /\ \E e \in Range(CurrentEdges(graph)) :
              /\ e[2] \in Range(run[p].popped) /\ e[1] \notin run[p].rr_set
              /\ <<e[1], e[2]>> \notin PositiveEdges

====
